---- MODULE Spec2Model ----
(***************************************************************************)
(* Model of colossalai/initialize.py: launch() writes the global context   *)
(* (gpc), initialize() resolves the configuration held by gpc into one     *)
(* Engine.  Objects (model, optimizer, criterion, dataloaders, scheduler,  *)
(* gradient handlers) are sequences of class names: the first element is   *)
(* the user's object, every later element is a wrapper put around it, so   *)
(* the last element is the class isinstance() sees.  The empty sequence is *)
(* Python's None.                                                          *)
(***************************************************************************)
EXTENDS Integers, Sequences, FiniteSets, TLC

\* ------------------------------------------------------------------ bounds
MaxSize == 2        \* largest data/tensor/pipeline parallel size tried
MaxWorld == 4       \* largest world_size tried
MaxHandlers == 2    \* longest configured gradient_handler list
MaxAccum == 2       \* the gradient_accumulation size tried

\* ------------------------------------------------------------ value spaces
None == <<>>

\* the members of colossalai.amp.AMP_TYPE tried as fp16.mode
AMP_TYPE == {"TORCH", "NAIVE"}

NoFp16 == [present |-> FALSE, has_mode |-> FALSE, mode |-> "None"]
Fp16Sections ==
    {NoFp16} \cup
    {[present |-> TRUE, has_mode |-> TRUE, mode |-> m] : m \in AMP_TYPE \cup {"None"}}

NoZero == [present |-> FALSE, has_level |-> FALSE, level |-> 0]
ZeroSections ==
    {NoZero} \cup {[present |-> TRUE, has_level |-> TRUE, level |-> l] : l \in {2, 3}}

HandlerTypes == {"DataParallelGradientHandler", "PipelineSharedModuleGradientHandler"}

HandlerLists == UNION {[1..n -> HandlerTypes] : n \in 0..MaxHandlers}

\* kind: "None" (gradient_handler = None), "nonlist" (a tuple, a dict, ...),
\* "list" (a list of dict(type=...) specifications, kept as their types)
NoGradientHandlerCfg == [kind |-> "None", specs |-> <<>>]
GradientHandlerEntries ==
    {[present |-> FALSE, kind |-> "None", specs |-> <<>>],
     [present |-> TRUE, kind |-> "None", specs |-> <<>>],
     [present |-> TRUE, kind |-> "nonlist", specs |-> <<>>]} \cup
    {[present |-> TRUE, kind |-> "list", specs |-> s] : s \in HandlerLists}

GradAccumEntries == {None, <<MaxAccum>>}

ClipEntries ==
    {[present |-> FALSE, value |-> 0]} \cup
    {[present |-> TRUE, value |-> v] : v \in {-1, 0, 1}}

ParallelSections == [data : 1..MaxSize, tensor : 1..MaxSize, pipeline : 1..MaxSize]

Configs ==
    [fp16 : Fp16Sections, zero : ZeroSections,
     gradient_handler : GradientHandlerEntries,
     gradient_accumulation : GradAccumEntries,
     clip_grad_norm : ClipEntries,
     parallel : ParallelSections]

NoConfig ==
    [fp16 |-> NoFp16, zero |-> NoZero,
     gradient_handler |-> [present |-> FALSE, kind |-> "None", specs |-> <<>>],
     gradient_accumulation |-> None,
     clip_grad_norm |-> [present |-> FALSE, value |-> 0],
     parallel |-> [data |-> 1, tensor |-> 1, pipeline |-> 1]]

ConfigArgTypes == {"Config", "dict", "str", "Path", "other"}

\* the environment variables the launch_from_* wrappers read; a value is a
\* string of decimal digits (a sequence of digits), or None when unset
EnvironNames ==
    {"SLURM_PROCID", "SLURM_NPROCS",
     "OMPI_COMM_WORLD_RANK", "OMPI_COMM_WORLD_LOCAL_RANK", "OMPI_COMM_WORLD_SIZE",
     "RANK", "LOCAL_RANK", "WORLD_SIZE"}

NoEnviron == [n \in EnvironNames |-> None]

\* the environments a SLURM, an OpenMPI and a torch launcher set up for a
\* process: world size w (written plainly or with a leading zero), rank r,
\* local rank l
RankTriples ==
    {[w |-> ws, r |-> <<r>>, l |-> <<l>>] :
        ws \in UNION {{<<w>>, <<0, w>>} : w \in 1..MaxWorld},
        r \in 0..(MaxWorld - 1), l \in 0..(MaxWorld - 1)}

Environs ==
    {[NoEnviron EXCEPT !["SLURM_PROCID"] = t.r, !["SLURM_NPROCS"] = t.w] :
        t \in {u \in RankTriples : u.l = <<0>>}} \cup
    {[NoEnviron EXCEPT !["OMPI_COMM_WORLD_RANK"] = t.r,
                       !["OMPI_COMM_WORLD_LOCAL_RANK"] = t.l,
                       !["OMPI_COMM_WORLD_SIZE"] = t.w] : t \in RankTriples} \cup
    {[NoEnviron EXCEPT !["RANK"] = t.r, !["LOCAL_RANK"] = t.l,
                       !["WORLD_SIZE"] = t.w] : t \in RankTriples}

Launchers == {"launch", "launch_from_slurm", "launch_from_openmpi", "launch_from_torch"}

NoLaunchArgs ==
    [launcher |-> "None", environ |-> NoEnviron, config_type |-> "None",
     config |-> NoConfig, rank |-> 0, world_size |-> 0, local_rank |-> None,
     cuda |-> "unqueried"]

\* the entries into launch(): the function called, the environment it runs
\* in, and for launch() itself the rank, world_size and local_rank given
DirectCalls(ranks, local_ranks) ==
    {[launcher |-> "launch", environ |-> NoEnviron,
      direct |-> [rank |-> r, world_size |-> w, local_rank |-> l]] :
        w \in 1..MaxWorld, r \in ranks, l \in local_ranks}

WrapperCalls ==
    {[launcher |-> f, environ |-> e,
      direct |-> [rank |-> 0, world_size |-> 0, local_rank |-> None]] :
        f \in Launchers \ {"launch"}, e \in Environs}

\* the arguments of one initialize() call: the optional ones are given or
\* left at their default None
InitializeArgs ==
    [model : {<<"Module">>},
     optimizer : {<<"Optimizer">>, <<"Optimizer", "ColossalaiOptimizer">>},
     criterion : {<<"Loss">>},
     train_dataloader : {<<"DataLoader:train">>},
     test_dataloader : {<<"DataLoader:test">>},
     lr_scheduler : {<<"_LRScheduler">>},
     verbose : BOOLEAN] \cup
    [model : {<<"Module">>},
     optimizer : {<<"Optimizer">>, <<"Optimizer", "ColossalaiOptimizer">>},
     criterion : {<<"Loss">>},
     train_dataloader : {None},
     test_dataloader : {None},
     lr_scheduler : {None},
     verbose : BOOLEAN]

NoArgs ==
    [model |-> None, optimizer |-> None, criterion |-> None,
     train_dataloader |-> None, test_dataloader |-> None,
     lr_scheduler |-> None, verbose |-> FALSE]

NoHandlers == [none |-> TRUE, list |-> <<>>]

\* the ConfigException messages of launch() and initialize()
FP16_AND_ZERO == "ConfigException: fp16 and zero at the same time"
CLIP_WITH_ZERO == "ConfigException: clip_grad_norm with zero"
CLIP_WITH_NAIVE == "ConfigException: clip_grad_norm with AMP_TYPE.NAIVE"
HANDLER_NOT_LIST == "ConfigException: gradient_handler is not a list"
BAD_PARALLEL_SIZES == "ConfigException: parallel sizes do not match world size"

ConfigExceptions ==
    {FP16_AND_ZERO, CLIP_WITH_ZERO, CLIP_WITH_NAIVE, HANDLER_NOT_LIST, BAD_PARALLEL_SIZES}

NoResult ==
    [returned |-> FALSE, engine |-> 0, train_dataloader |-> None,
     test_dataloader |-> None, lr_scheduler |-> None]

\* ---------------------------------------------------------------- helpers
Last(s) == s[Len(s)]

\* the classes whose objects are instances of cls: cls and its subclasses
InstancesOf(cls) ==
    IF cls = "ColossalaiOptimizer"
    THEN {"ColossalaiOptimizer", "AMPOptimizer(ColossalaiOptimizer)"}
    ELSE {cls}

isinstance(obj, classes) ==
    obj # None /\ \E cls \in classes : Last(obj) \in InstancesOf(cls)

Count(s, e) == Cardinality({i \in 1..Len(s) : s[i] = e})

Index(s, e) == IF \E i \in 1..Len(s) : s[i] = e
               THEN CHOOSE i \in 1..Len(s) : s[i] = e /\ \A j \in 1..(i - 1) : s[j] # e
               ELSE 0

VARIABLES
    pc,                  \* position in launch() / initialize()
    launch_args,         \* the arguments launch() was called with
    gpc,                 \* the global context written by launch()
    launch_trace,        \* the gpc methods launch() has called, in order
    args,                \* the caller's arguments of initialize()
    model, optimizer, criterion,
    train_dataloader, test_dataloader, lr_scheduler,
    cfg_, amp_mode, level,
    gradient_handler_cfg, gradient_handlers,
    clip_grad_norm,
    engines,             \* the Engine objects constructed so far
    result,              \* what initialize() returned
    exception,           \* the exception that ended the call, or "None"
    warned,              \* the 'No PyTorch DDP or gradient handler' warning
    trace                \* the collaborators initialize() has called, in order

vars ==
    <<pc, launch_args, gpc, launch_trace, args, model, optimizer, criterion,
      train_dataloader, test_dataloader, lr_scheduler, cfg_, amp_mode, level,
      gradient_handler_cfg, gradient_handlers, clip_grad_norm, engines, result,
      exception, warned, trace>>

locals ==
    <<args, model, optimizer, criterion, train_dataloader, test_dataloader,
      lr_scheduler, cfg_, amp_mode, level, gradient_handler_cfg,
      gradient_handlers, clip_grad_norm, engines, result, warned, trace>>

Init ==
    /\ pc = "launch"
    /\ launch_args = NoLaunchArgs
    /\ gpc = [config |-> NoConfig, loaded |-> FALSE, verbose |-> FALSE,
              world_size |-> 0, data_parallel_size |-> 0,
              tensor_parallel_size |-> 0, pipeline_parallel_size |-> 0]
    /\ launch_trace = <<>>
    /\ args = NoArgs
    /\ model = None
    /\ optimizer = None
    /\ criterion = None
    /\ train_dataloader = None
    /\ test_dataloader = None
    /\ lr_scheduler = None
    /\ cfg_ = NoFp16
    /\ amp_mode = "None"
    /\ level = 0
    /\ gradient_handler_cfg = NoGradientHandlerCfg
    /\ gradient_handlers = NoHandlers
    /\ clip_grad_norm = 0
    /\ engines = <<>>
    /\ result = NoResult
    /\ exception = "None"
    /\ warned = FALSE
    /\ trace = <<>>

\* ----------------------------------------------------------------- launch
\* gpc.init_parallel_groups(): the configured sizes must multiply to the
\* world size, else ConfigException
init_parallel_groups_ok(g) ==
    g.config.parallel.data * g.config.parallel.tensor * g.config.parallel.pipeline
        = g.world_size

\* int(os.environ[...]): the number a string of decimal digits denotes
RECURSIVE int(_)
int(str) ==
    IF Len(str) = 1 THEN str[1]
    ELSE 10 * int(SubSeq(str, 1, Len(str) - 1)) + str[Len(str)]

\* a SLURM wrapper that hands the rank on as the local rank
launch_from_slurm_local_rank(environ) ==
    [rank |-> int(environ["SLURM_PROCID"]),
     world_size |-> int(environ["SLURM_NPROCS"]),
     local_rank |-> <<int(environ["SLURM_PROCID"])>>]

\* launch_from_slurm, lines 140-149: the arguments it calls launch() with
launch_from_slurm(environ) ==
    [rank |-> int(environ["SLURM_PROCID"]),
     world_size |-> int(environ["SLURM_NPROCS"]),
     local_rank |-> None]

\* launch_from_openmpi, lines 172-183
launch_from_openmpi(environ) ==
    [rank |-> int(environ["OMPI_COMM_WORLD_RANK"]),
     world_size |-> int(environ["OMPI_COMM_WORLD_SIZE"]),
     local_rank |-> <<int(environ["OMPI_COMM_WORLD_LOCAL_RANK"])>>]

\* launch_from_torch, lines 206-217
launch_from_torch(environ) ==
    [rank |-> int(environ["RANK"]),
     world_size |-> int(environ["WORLD_SIZE"]),
     local_rank |-> <<int(environ["LOCAL_RANK"])>>]

\* the environment variables a wrapper reads (os.environ[...] raises KeyError
\* for one that is unset)
environ_read(launcher) ==
    CASE launcher = "launch_from_slurm" -> {"SLURM_PROCID", "SLURM_NPROCS"}
      [] launcher = "launch_from_openmpi" ->
            {"OMPI_COMM_WORLD_RANK", "OMPI_COMM_WORLD_LOCAL_RANK", "OMPI_COMM_WORLD_SIZE"}
      [] launcher = "launch_from_torch" -> {"RANK", "LOCAL_RANK", "WORLD_SIZE"}
      [] OTHER -> {}

\* rank, world_size and local_rank as launch() receives them
launch_arguments(call) ==
    CASE call.launcher = "launch_from_slurm" -> launch_from_slurm(call.environ)
      [] call.launcher = "launch_from_openmpi" -> launch_from_openmpi(call.environ)
      [] call.launcher = "launch_from_torch" -> launch_from_torch(call.environ)
      [] OTHER -> call.direct

\* one entry: the wrapper's reads of os.environ, then launch, lines 89-98:
\* gpc.verbose, the type assertion, the conversion to Config and
\* gpc.load_config(config)
launch_enter(call, t, c) ==
    /\ IF \E n \in environ_read(call.launcher) : call.environ[n] = None
       THEN /\ exception' = "KeyError"
            /\ pc' = "launch_raised"
            /\ launch_args' = [NoLaunchArgs EXCEPT !.launcher = call.launcher,
                                                   !.environ = call.environ]
            /\ UNCHANGED <<gpc, launch_trace>>
       ELSE LET a == launch_arguments(call)
                received == [NoLaunchArgs EXCEPT
                               !.launcher = call.launcher, !.environ = call.environ,
                               !.config_type = t, !.config = c, !.rank = a.rank,
                               !.world_size = a.world_size,
                               !.local_rank = a.local_rank]
            IN /\ launch_args' = received
               /\ IF t \notin {"Config", "str", "Path", "dict"}
                  THEN /\ exception' = "AssertionError"
                       /\ pc' = "launch_raised"
                       /\ gpc' = [gpc EXCEPT !.verbose = TRUE]
                       /\ UNCHANGED launch_trace
                  ELSE /\ gpc' = [gpc EXCEPT !.verbose = TRUE, !.config = c,
                                             !.loaded = TRUE]
                       /\ launch_trace' = Append(launch_trace, "load_config")
                       /\ pc' = "init_global_dist"
                       /\ UNCHANGED exception
    /\ UNCHANGED locals

\* launch() called directly, by rank 0 and without local_rank, with a Config
\* or with an object of a wrong type
launch_load_config ==
    /\ pc = "launch"
    /\ \E call \in DirectCalls({0}, {None}), t \in {"Config", "other"}, c \in Configs :
         launch_enter(call, t, c)

\* the configurations that differ in their parallel sizes only
ParallelConfigs == {c \in Configs : \E p \in ParallelSections : c = [NoConfig EXCEPT !.parallel = p]}

\* launch() called directly or through one of its three wrappers
launch_any_entry ==
    /\ pc = "launch"
    /\ \E call \in DirectCalls(0..(MaxWorld - 1), {None, <<0>>}) \cup WrapperCalls,
          t \in ConfigArgTypes, c \in ParallelConfigs :
         launch_enter(call, t, c)

\* launch, line 101
launch_init_global_dist ==
    /\ pc = "init_global_dist"
    /\ gpc' = [gpc EXCEPT !.world_size = launch_args.world_size]
    /\ launch_trace' = Append(launch_trace, "init_global_dist")
    /\ pc' = "init_parallel_groups"
    /\ UNCHANGED <<launch_args, exception>>
    /\ UNCHANGED locals

\* launch, line 104
launch_init_parallel_groups ==
    /\ pc = "init_parallel_groups"
    /\ launch_trace' = Append(launch_trace, "init_parallel_groups")
    /\ IF init_parallel_groups_ok(gpc)
       THEN /\ gpc' = [gpc EXCEPT
                         !.data_parallel_size = gpc.config.parallel.data,
                         !.tensor_parallel_size = gpc.config.parallel.tensor,
                         !.pipeline_parallel_size = gpc.config.parallel.pipeline]
            /\ pc' = "set_device"
            /\ UNCHANGED exception
       ELSE /\ exception' = BAD_PARALLEL_SIZES
            /\ pc' = "launch_raised"
            /\ UNCHANGED gpc
    /\ UNCHANGED launch_args
    /\ UNCHANGED locals

\* launch, lines 107-109: set_device only when torch.cuda.is_available()
launch_set_device ==
    /\ pc = "set_device"
    /\ \E cuda \in BOOLEAN :
         /\ launch_trace' = IF cuda THEN Append(launch_trace, "set_device")
                            ELSE launch_trace
         /\ launch_args' = [launch_args EXCEPT
                              !.cuda = IF cuda THEN "available" ELSE "unavailable"]
    /\ pc' = "set_seed"
    /\ UNCHANGED <<gpc, exception>>
    /\ UNCHANGED locals

\* launch, line 111
launch_set_seed ==
    /\ pc = "set_seed"
    /\ launch_trace' = Append(launch_trace, "set_seed")
    /\ pc' = "launched"
    /\ UNCHANGED <<gpc, launch_args, exception>>
    /\ UNCHANGED locals

\* ------------------------------------------------- initialize: collaborators
\* data parallelism counted only when no pipeline is in use
is_using_ddp_without_pipeline(g) ==
    g.data_parallel_size > 1 /\ g.pipeline_parallel_size = 1

\* colossalai.utils.is_using_ddp / is_using_pp, as initialize relies on them:
\* branch 3 of the resolver ('if using pipeline and dp size larger than 1') is
\* reached through is_using_ddp() with the pipeline in use
is_using_ddp(g) == g.data_parallel_size > 1

\* a pipeline of one stage counted as pipeline parallelism
is_using_pp_one_stage(g) == g.pipeline_parallel_size >= 1

is_using_pp(g) == g.pipeline_parallel_size > 1

\* the optimizer classes convert_to_amp may return: one that is not derived
\* from ColossalaiOptimizer, and one that is
AmpOptimizerClasses == {"AMPOptimizer", "AMPOptimizer(ColossalaiOptimizer)"}

\* colossalai.amp.convert_to_amp: a new (model, optimizer, criterion) triple,
\* for each class the returned optimizer may have
convert_to_amp(m, o, c, mode, amp_config) ==
    {[model |-> Append(m, "AMPModel"), optimizer |-> Append(o, cls),
      criterion |-> Append(c, "AMPLoss")] : cls \in AmpOptimizerClasses}

\* colossalai.zero.convert_to_zero: a new (model, optimizer) pair whose
\* optimizer identifies its level
convert_to_zero(m, o, lvl, zero_config) ==
    [model |-> Append(m, "ZeroModel"),
     optimizer |-> Append(o, IF lvl = 3 THEN "ZeroRedundancyOptimizer_Level_3"
                                        ELSE "ZeroRedundancyOptimizer_Level_2")]

\* colossalai.builder.build_gradient_handler: one handler of the type the
\* specification names
build_gradient_handler(cfg, m, o) == <<cfg>>

\* colossalai.utils.accumulate_gradient: accumulation-aware replacements of
\* the optimizer, the dataloader, each gradient handler and the scheduler
accumulate_gradient(m, o, dataloader, accumulate_size, handlers, scheduler) ==
    [optimizer |-> Append(o, "GradAccumOptimizer"),
     dataloader |-> IF dataloader = None THEN None
                    ELSE Append(dataloader, "GradAccumDataloader"),
     gradient_handlers |->
         IF handlers.none THEN handlers
         ELSE [none |-> FALSE,
               list |-> [i \in 1..Len(handlers.list) |->
                            Append(handlers.list[i], "GradAccumGradientHandler")]],
     lr_scheduler |-> IF scheduler = None THEN None
                      ELSE Append(scheduler, "GradAccumLrSchedulerByStep")]

\* the handlers built in the reverse of the listed order
build_gradient_handlers_reversed(cfgs, m, o) ==
    [i \in 1..Len(cfgs) |-> build_gradient_handler(cfgs[Len(cfgs) + 1 - i], m, o)]

\* line 344: [build_gradient_handler(cfg, model, optimizer) for cfg in ...]
build_gradient_handlers(cfgs, m, o) ==
    [i \in 1..Len(cfgs) |-> build_gradient_handler(cfgs[i], m, o)]

\* colossalai.engine.Engine(model, optimizer, criterion, gradient_handlers,
\* clip_grad_norm)
Engine(m, o, c, handlers, clip) ==
    [model |-> m, optimizer |-> o, criterion |-> c,
     gradient_handlers |-> handlers, clip_grad_norm |-> clip]

\* ---------------------------------------------------- initialize: decisions
\* the synchronisation skipped for every zero level
use_zero3_any_level(config) == config.zero.present

\* line 271
use_zero3(config) == config.zero.present /\ config.zero.level = 3

\* a check that only refuses the naive mode next to zero
amp_zero_conflict_naive_only(fp16_cfg, zero_cfg) ==
    fp16_cfg.present /\ fp16_cfg.mode = "NAIVE" /\ zero_cfg.present

\* line 279
amp_zero_conflict(fp16_cfg, zero_cfg) ==
    fp16_cfg.present /\ fp16_cfg.mode # "None" /\ zero_cfg.present

\* 'mode' popped from the shared section itself
pop_mode_in_place(fp16_cfg) ==
    [shared |-> [fp16_cfg EXCEPT !.has_mode = FALSE, !.mode = "None"],
     cfg_ |-> [fp16_cfg EXCEPT !.has_mode = FALSE, !.mode = "None"],
     value |-> fp16_cfg.mode]

\* lines 286-287: cfg_ = fp16_cfg.copy(); amp_mode = cfg_.pop('mode').  The
\* shared section afterwards, the copy afterwards, and the popped value
pop_mode_from_copy(fp16_cfg) ==
    [shared |-> fp16_cfg,
     cfg_ |-> [fp16_cfg EXCEPT !.has_mode = FALSE, !.mode = "None"],
     value |-> fp16_cfg.mode]

\* lines 295-296: cfg_ = zero_cfg.copy(); level = cfg_.pop('level')
pop_level_from_copy(zero_cfg) ==
    [shared |-> zero_cfg,
     cfg_ |-> [zero_cfg EXCEPT !.has_level = FALSE, !.level = 0],
     value |-> zero_cfg.level]

\* line 285
amp_configured(fp16_cfg) == fp16_cfg.present /\ fp16_cfg.mode # "None"

\* line 304: gpc.config.get('gradient_handler', None)
get_gradient_handler(config) ==
    IF config.gradient_handler.present
    THEN [kind |-> config.gradient_handler.kind, specs |-> config.gradient_handler.specs]
    ELSE NoGradientHandlerCfg

\* a resolver that tries the native wrapper before it looks at the optimizer
auto_gradient_handler_ddp_first(o, g, mode) ==
    IF is_using_ddp(g) /\ ~is_using_pp(g) /\ mode # "NAIVE"
    THEN "DDP"
    ELSE IF isinstance(o, {"ZeroRedundancyOptimizer_Level_2",
                           "ZeroRedundancyOptimizer_Level_3"})
    THEN "ZeROGradientHandler"
    ELSE IF is_using_ddp(g)
    THEN "DataParallelGradientHandler"
    ELSE "None"

\* a resolver that keeps the native wrapper for runs without mixed precision
auto_gradient_handler_no_amp(o, g, mode) ==
    IF isinstance(o, {"ZeroRedundancyOptimizer_Level_2",
                      "ZeroRedundancyOptimizer_Level_3"})
    THEN "ZeROGradientHandler"
    ELSE IF is_using_ddp(g) /\ ~is_using_pp(g) /\ mode = "None"
    THEN "DDP"
    ELSE IF is_using_ddp(g)
    THEN "DataParallelGradientHandler"
    ELSE "None"

\* lines 311-330: what the resolver does when no gradient handler is configured
auto_gradient_handler(o, g, mode) ==
    IF isinstance(o, {"ZeroRedundancyOptimizer_Level_2", "ZeroRedundancyOptimizer_Level_3"})
    THEN "ZeROGradientHandler"
    ELSE IF is_using_ddp(g) /\ ~is_using_pp(g) /\ mode # "NAIVE"
    THEN "DDP"
    ELSE IF is_using_ddp(g)
    THEN "DataParallelGradientHandler"
    ELSE "None"

\* a test that forgot the already wrapped optimizer
needs_colossalai_optimizer_unless_zero(o) ==
    ~isinstance(o, {"ZeroRedundancyOptimizer_Level_2", "ZeroRedundancyOptimizer_Level_3"})

\* line 347
needs_colossalai_optimizer(o) ==
    ~isinstance(o, {"ColossalaiOptimizer", "ZeroRedundancyOptimizer_Level_2",
                    "ZeroRedundancyOptimizer_Level_3"})

\* accumulation applied whether configured or not
grad_accum_always(config) == TRUE

\* lines 347-348
wrap_optimizer(o) ==
    IF needs_colossalai_optimizer(o) THEN Append(o, "ColossalaiOptimizer") ELSE o

\* lines 351-352: gpc.config.get('gradient_accumulation', None) is not None
grad_accum_configured(config) == config.gradient_accumulation # None

\* line 361: gpc.config.get('clip_grad_norm', 0.0)
get_clip_grad_norm(config) ==
    IF config.clip_grad_norm.present THEN config.clip_grad_norm.value ELSE 0

\* a validation that lost its elif branch
clip_conflict_zero_only(clip, zero_cfg, fp16_cfg) ==
    IF clip > 0 /\ zero_cfg.present THEN CLIP_WITH_ZERO ELSE "None"

\* lines 362-368: the exception the clip-norm validation raises, or "None"
clip_conflict(clip, zero_cfg, fp16_cfg) ==
    IF clip > 0
    THEN IF zero_cfg.present
         THEN CLIP_WITH_ZERO
         ELSE IF fp16_cfg.present /\ fp16_cfg.mode = "NAIVE"
         THEN CLIP_WITH_NAIVE
         ELSE "None"
    ELSE "None"

\* ------------------------------------------------------- initialize: steps
\* lines 247-273: take the arguments, move the model to the device and
\* synchronise its parameters unless zero level 3 is configured
initialize_sync ==
    /\ pc = "launched"
    /\ \E a \in InitializeArgs :
         /\ args' = a
         /\ model' = a.model
         /\ optimizer' = a.optimizer
         /\ criterion' = a.criterion
         /\ train_dataloader' = a.train_dataloader
         /\ test_dataloader' = a.test_dataloader
         /\ lr_scheduler' = a.lr_scheduler
         /\ gpc' = [gpc EXCEPT !.verbose = a.verbose]
    /\ trace' = IF use_zero3(gpc.config)
                THEN <<"model.to">>
                ELSE <<"model.to", "sync_model_param_in_dp">>
    /\ pc' = "check_amp_zero"
    /\ UNCHANGED <<launch_args, launch_trace, cfg_, amp_mode, level,
                   gradient_handler_cfg, gradient_handlers, clip_grad_norm,
                   engines, result, exception, warned>>

\* the fp16/zero check placed after the mixed-precision conversion
initialize_check_amp_zero_late ==
    /\ pc = "check_amp_zero"
    /\ IF amp_zero_conflict(gpc.config.fp16, gpc.config.zero)
       THEN /\ exception' = FP16_AND_ZERO
            /\ pc' = "raised"
            /\ trace' = Append(trace, "convert_to_amp")
       ELSE pc' = "amp" /\ UNCHANGED <<exception, trace>>
    /\ UNCHANGED <<launch_args, gpc, launch_trace, args, model, optimizer, criterion,
                   train_dataloader, test_dataloader, lr_scheduler, cfg_, amp_mode,
                   level, gradient_handler_cfg, gradient_handlers, clip_grad_norm,
                   engines, result, warned>>

\* lines 276-281
initialize_check_amp_zero ==
    /\ pc = "check_amp_zero"
    /\ IF amp_zero_conflict(gpc.config.fp16, gpc.config.zero)
       THEN exception' = FP16_AND_ZERO /\ pc' = "raised"
       ELSE pc' = "amp" /\ UNCHANGED exception
    /\ UNCHANGED <<launch_args, gpc, launch_trace>>
    /\ UNCHANGED locals

\* lines 284-292
initialize_amp ==
    /\ pc = "amp"
    /\ IF amp_configured(gpc.config.fp16)
       THEN /\ LET p == pop_mode_from_copy(gpc.config.fp16)
               IN /\ gpc' = [gpc EXCEPT !.config.fp16 = p.shared]
                  /\ cfg_' = p.cfg_
                  /\ amp_mode' = p.value
            /\ \E r \in convert_to_amp(model, optimizer, criterion,
                                        amp_mode', cfg_') :
                  /\ model' = r.model
                  /\ optimizer' = r.optimizer
                  /\ criterion' = r.criterion
            /\ trace' = Append(trace, "convert_to_amp")
       ELSE /\ amp_mode' = "None"
            /\ UNCHANGED <<gpc, cfg_, model, optimizer, criterion, trace>>
    /\ pc' = "zero"
    /\ UNCHANGED <<launch_args, launch_trace, args, train_dataloader,
                   test_dataloader, lr_scheduler, level, gradient_handler_cfg,
                   gradient_handlers, clip_grad_norm, engines, result,
                   exception, warned>>

\* lines 294-301
initialize_zero ==
    /\ pc = "zero"
    /\ IF gpc.config.zero.present
       THEN /\ LET p == pop_level_from_copy(gpc.config.zero)
               IN /\ gpc' = [gpc EXCEPT !.config.zero = p.shared]
                  /\ cfg_' = p.cfg_
                  /\ level' = p.value
            /\ LET r == convert_to_zero(model, optimizer, level', cfg_')
               IN /\ model' = r.model
                  /\ optimizer' = r.optimizer
            /\ trace' = Append(trace, "convert_to_zero")
       ELSE UNCHANGED <<gpc, cfg_, level, model, optimizer, trace>>
    /\ pc' = "gradient_handler"
    /\ UNCHANGED <<launch_args, launch_trace, args, criterion, train_dataloader,
                   test_dataloader, lr_scheduler, amp_mode, gradient_handler_cfg,
                   gradient_handlers, clip_grad_norm, engines, result,
                   exception, warned>>

\* lines 304-334
initialize_gradient_handler ==
    /\ pc = "gradient_handler"
    /\ LET cfg == get_gradient_handler(gpc.config)
           auto == auto_gradient_handler(optimizer, gpc, amp_mode)
       IN IF cfg.kind = "None"
          THEN /\ gradient_handler_cfg' =
                     IF auto \in {"ZeROGradientHandler", "DataParallelGradientHandler"}
                     THEN [kind |-> "list", specs |-> <<auto>>]
                     ELSE cfg
               /\ model' = IF auto = "DDP" THEN Append(model, "DistributedDataParallel")
                           ELSE model
               /\ trace' = IF auto = "DDP" THEN Append(trace, "DDP") ELSE trace
               /\ pc' = "build_handlers"
               /\ UNCHANGED exception
          ELSE /\ gradient_handler_cfg' = cfg
               /\ IF cfg.kind # "list"
                  THEN exception' = HANDLER_NOT_LIST /\ pc' = "raised"
                  ELSE pc' = "build_handlers" /\ UNCHANGED exception
               /\ UNCHANGED <<model, trace>>
    /\ UNCHANGED <<launch_args, gpc, launch_trace, args, optimizer, criterion,
                   train_dataloader, test_dataloader, lr_scheduler, cfg_, amp_mode,
                   level, gradient_handlers, clip_grad_norm, engines, result, warned>>

\* lines 336-344
initialize_build_handlers ==
    /\ pc = "build_handlers"
    /\ IF gradient_handler_cfg.kind = "None"
       THEN /\ gradient_handlers' = NoHandlers
            /\ warned' = (gpc.verbose /\ ~isinstance(model, {"DistributedDataParallel"}))
            /\ UNCHANGED trace
       ELSE /\ gradient_handlers' =
                 [none |-> FALSE,
                  list |-> build_gradient_handlers(gradient_handler_cfg.specs,
                                                   model, optimizer)]
            /\ trace' = trace \o [i \in 1..Len(gradient_handler_cfg.specs) |->
                                    "build_gradient_handler"]
            /\ UNCHANGED warned
    /\ pc' = "optimizer"
    /\ UNCHANGED <<launch_args, gpc, launch_trace, args, model, optimizer, criterion,
                   train_dataloader, test_dataloader, lr_scheduler, cfg_, amp_mode,
                   level, gradient_handler_cfg, clip_grad_norm, engines, result,
                   exception>>

\* lines 346-348
initialize_optimizer ==
    /\ pc = "optimizer"
    /\ optimizer' = wrap_optimizer(optimizer)
    /\ trace' = IF needs_colossalai_optimizer(optimizer)
                THEN Append(trace, "ColossalaiOptimizer")
                ELSE trace
    /\ pc' = "gradient_accumulation"
    /\ UNCHANGED <<launch_args, gpc, launch_trace, args, model, criterion,
                   train_dataloader, test_dataloader, lr_scheduler, cfg_, amp_mode,
                   level, gradient_handler_cfg, gradient_handlers, clip_grad_norm,
                   engines, result, exception, warned>>

\* lines 350-358
initialize_gradient_accumulation ==
    /\ pc = "gradient_accumulation"
    /\ LET grad_accum_size == gpc.config.gradient_accumulation
       IN IF grad_accum_configured(gpc.config)
          THEN LET r == accumulate_gradient(model, optimizer, train_dataloader,
                                            grad_accum_size, gradient_handlers,
                                            lr_scheduler)
               IN /\ optimizer' = r.optimizer
                  /\ train_dataloader' = r.dataloader
                  /\ gradient_handlers' = r.gradient_handlers
                  /\ lr_scheduler' = r.lr_scheduler
                  /\ trace' = Append(trace, "accumulate_gradient")
          ELSE UNCHANGED <<optimizer, train_dataloader, gradient_handlers,
                           lr_scheduler, trace>>
    /\ pc' = "clip_grad_norm"
    /\ UNCHANGED <<launch_args, gpc, launch_trace, args, model, criterion,
                   test_dataloader, cfg_, amp_mode, level, gradient_handler_cfg,
                   clip_grad_norm, engines, result, exception, warned>>

\* lines 361-368
initialize_clip_grad_norm ==
    /\ pc = "clip_grad_norm"
    /\ clip_grad_norm' = get_clip_grad_norm(gpc.config)
    /\ LET e == clip_conflict(clip_grad_norm', gpc.config.zero, gpc.config.fp16)
       IN IF e # "None"
          THEN exception' = e /\ pc' = "raised"
          ELSE pc' = "engine" /\ UNCHANGED exception
    /\ UNCHANGED <<launch_args, gpc, launch_trace, args, model, optimizer, criterion,
                   train_dataloader, test_dataloader, lr_scheduler, cfg_, amp_mode,
                   level, gradient_handler_cfg, gradient_handlers, engines, result,
                   warned, trace>>

\* lines 370-378
initialize_engine ==
    /\ pc = "engine"
    /\ engines' = Append(engines, Engine(model, optimizer, criterion,
                                         gradient_handlers, clip_grad_norm))
    /\ trace' = Append(trace, "Engine")
    /\ result' = [returned |-> TRUE, engine |-> Len(engines'),
                  train_dataloader |-> train_dataloader,
                  test_dataloader |-> test_dataloader,
                  lr_scheduler |-> lr_scheduler]
    /\ pc' = "returned"
    /\ UNCHANGED <<launch_args, gpc, launch_trace, args, model, optimizer, criterion,
                   train_dataloader, test_dataloader, lr_scheduler, cfg_, amp_mode,
                   level, gradient_handler_cfg, gradient_handlers, clip_grad_norm,
                   exception, warned>>

Next ==
    \/ launch_load_config
    \/ launch_init_global_dist
    \/ launch_init_parallel_groups
    \/ launch_set_device
    \/ launch_set_seed
    \/ initialize_sync
    \/ initialize_check_amp_zero
    \/ initialize_amp
    \/ initialize_zero
    \/ initialize_gradient_handler
    \/ initialize_build_handlers
    \/ initialize_optimizer
    \/ initialize_gradient_accumulation
    \/ initialize_clip_grad_norm
    \/ initialize_engine

Spec == Init /\ [][Next]_vars

\* launch() alone, entered in every way
NextLaunch ==
    \/ launch_any_entry
    \/ launch_init_global_dist
    \/ launch_init_parallel_groups
    \/ launch_set_device
    \/ launch_set_seed

SpecLaunch == Init /\ [][NextLaunch]_vars

\* ------------------------------------------------------------------ claims
\* positions of initialize() after its first step, after the fp16/zero check,
\* after the handlers are built, and at its end
InInitialize ==
    pc \in {"check_amp_zero", "amp", "zero", "gradient_handler", "build_handlers",
            "optimizer", "gradient_accumulation", "clip_grad_norm", "engine",
            "returned", "raised"}

PastAmpZeroCheck == InInitialize /\ pc # "check_amp_zero"

HandlersResolved ==
    \/ pc \in {"optimizer", "gradient_accumulation", "clip_grad_norm", "engine", "returned"}
    \/ pc = "raised" /\ exception \in {CLIP_WITH_ZERO, CLIP_WITH_NAIVE}

Finished == pc \in {"returned", "raised"}

Called(e) == \E i \in 1..Len(trace) : trace[i] = e

Fp16ModeSet == gpc.config.fp16.present /\ gpc.config.fp16.mode # "None"

ZeroSet == gpc.config.zero.present

ClipPositive == gpc.config.clip_grad_norm.present /\ gpc.config.clip_grad_norm.value > 0

\* C1: with fp16.mode set and a zero section present, initialize() gets no
\* further than the fp16/zero check: it raises ConfigException, constructs no
\* Engine, and neither convert_to_amp nor convert_to_zero has been called.
C1_Fp16WithZeroRaises ==
    (PastAmpZeroCheck /\ Fp16ModeSet /\ ZeroSet) =>
        /\ pc = "raised"
        /\ exception \in ConfigExceptions
        /\ engines = <<>>
        /\ ~Called("convert_to_amp")
        /\ ~Called("convert_to_zero")

C1_Witness ==
    /\ pc = "raised"
    /\ Fp16ModeSet /\ ZeroSet
    /\ gpc.config.fp16.mode = "TORCH"
    /\ exception = FP16_AND_ZERO

\* C2: with clip_grad_norm > 0 and zero present, or clip_grad_norm > 0 and
\* fp16.mode == NAIVE, initialize() never reaches the Engine construction and
\* ends with a ConfigException; with clip_grad_norm absent or <= 0 neither of
\* the two clip-norm errors is raised.
C2_ClipNormConflictRaises ==
    /\ (InInitialize /\ ClipPositive
           /\ (ZeroSet \/ (gpc.config.fp16.present /\ gpc.config.fp16.mode = "NAIVE"))) =>
          /\ engines = <<>>
          /\ pc \notin {"engine", "returned"}
          /\ pc = "raised" => exception \in ConfigExceptions
    /\ (InInitialize /\ ~ClipPositive) =>
          exception \notin {CLIP_WITH_ZERO, CLIP_WITH_NAIVE}

C2_Witness ==
    /\ pc = "raised"
    /\ exception = CLIP_WITH_NAIVE
    /\ ClipPositive
    /\ gpc.config.fp16.mode = "NAIVE"
    /\ Called("convert_to_amp")

Conversions ==
    {"convert_to_amp", "convert_to_zero", "DDP", "ColossalaiOptimizer",
     "accumulate_gradient"}

\* C3 as stated: whenever initialize() has raised a ConfigException, none of
\* convert_to_amp, convert_to_zero, the DDP wrapping, the optimizer wrapping
\* or accumulate_gradient has been applied.
C3_NoConversionBeforeAnyConfigException ==
    (pc = "raised" /\ exception \in ConfigExceptions) =>
        \A e \in Conversions : ~Called(e)

\* C3 as amended: only the fp16+zero exception precedes every conversion.  The
\* gradient_handler type error comes after the converters and before the DDP
\* wrapping, the handler construction, the optimizer wrapping and
\* accumulate_gradient.  The clip-norm errors come after every conversion the
\* configuration asks for (the converter of the conflicting section and
\* accumulate_gradient when configured) and before the Engine is constructed.
C3_ConfigExceptionOrder ==
    (pc = "raised") =>
        /\ exception \in ConfigExceptions
        /\ engines = <<>> /\ ~Called("Engine")
        /\ exception = FP16_AND_ZERO => \A e \in Conversions : ~Called(e)
        /\ exception = HANDLER_NOT_LIST =>
             /\ \A e \in {"DDP", "build_gradient_handler", "ColossalaiOptimizer",
                          "accumulate_gradient"} : ~Called(e)
             /\ Called("convert_to_amp") <=> Fp16ModeSet
             /\ Called("convert_to_zero") <=> ZeroSet
        /\ exception = CLIP_WITH_ZERO => Called("convert_to_zero")
        /\ exception = CLIP_WITH_NAIVE => Called("convert_to_amp")
        /\ exception \in {CLIP_WITH_ZERO, CLIP_WITH_NAIVE} =>
             (Called("accumulate_gradient") <=> gpc.config.gradient_accumulation # None)

C3_Witness ==
    /\ pc = "raised"
    /\ exception = CLIP_WITH_ZERO
    /\ Called("convert_to_zero")
    /\ Called("accumulate_gradient")

NoHandlerConfigured ==
    ~gpc.config.gradient_handler.present \/ gpc.config.gradient_handler.kind = "None"

IsDDP(m) == isinstance(m, {"DistributedDataParallel"})

\* the types of the handlers of a handler set, innermost class of each
HandlerTypesOf(h) == [i \in 1..Len(h.list) |-> h.list[i][1]]

\* C4: with a zero section (level 2 or 3) and no gradient_handler configured,
\* the resolved handlers are exactly one ZeROGradientHandler and the model is
\* not wrapped in DistributedDataParallel, whatever is_using_ddp() and
\* is_using_pp() say; the resolver itself raises nothing.
C4_ZeroHandlerResolved ==
    (InInitialize /\ ZeroSet /\ NoHandlerConfigured) =>
        /\ HandlersResolved =>
             /\ ~gradient_handlers.none
             /\ HandlerTypesOf(gradient_handlers) = <<"ZeROGradientHandler">>
             /\ ~IsDDP(model)
             /\ ~Called("DDP")
        /\ exception # HANDLER_NOT_LIST
        /\ pc = "returned" =>
             /\ HandlerTypesOf(engines[1].gradient_handlers) = <<"ZeROGradientHandler">>
             /\ ~IsDDP(engines[1].model)

C4_Witness ==
    /\ pc = "returned"
    /\ ZeroSet /\ NoHandlerConfigured
    /\ gpc.config.zero.level = 3
    /\ is_using_ddp(gpc) /\ ~is_using_pp(gpc)
    /\ HandlerTypesOf(engines[1].gradient_handlers) = <<"ZeROGradientHandler">>

\* C5: with no gradient_handler configured, no zero section, data-parallel
\* size > 1, pipeline size == 1 and a mixed-precision mode other than NAIVE
\* (or none), the model is wrapped in DistributedDataParallel, no gradient
\* handler is built (gradient_handlers is None), no 'no gradient handler'
\* warning is emitted, and the call returns such an Engine.
C5_NativeDDP ==
    (InInitialize /\ NoHandlerConfigured /\ ~ZeroSet
       /\ gpc.data_parallel_size > 1 /\ gpc.pipeline_parallel_size = 1
       /\ ~(gpc.config.fp16.present /\ gpc.config.fp16.mode = "NAIVE")) =>
        /\ pc # "raised"
        /\ ~warned
        /\ ~Called("build_gradient_handler")
        /\ HandlersResolved =>
             /\ IsDDP(model)
             /\ Count(trace, "DDP") = 1
             /\ gradient_handlers.none
        /\ pc = "returned" =>
             /\ IsDDP(engines[1].model)
             /\ engines[1].gradient_handlers.none

C5_Witness ==
    /\ pc = "returned"
    /\ NoHandlerConfigured /\ ~ZeroSet
    /\ gpc.data_parallel_size > 1 /\ gpc.pipeline_parallel_size = 1
    /\ gpc.config.fp16.mode = "TORCH"
    /\ gpc.verbose
    /\ IsDDP(engines[1].model)

HandlerEntry == gpc.config.gradient_handler

\* what C7 says of a gradient_handler entry that is a list
ListedHandlersBuilt ==
    (InInitialize /\ HandlerEntry.present /\ HandlerEntry.kind = "list") =>
        /\ ~Called("DDP")
        /\ ~IsDDP(model)
        /\ exception # HANDLER_NOT_LIST
        /\ HandlersResolved =>
             /\ ~gradient_handlers.none
             /\ HandlerTypesOf(gradient_handlers) = HandlerEntry.specs
             /\ Count(trace, "build_gradient_handler") = Len(HandlerEntry.specs)
        /\ pc = "returned" =>
             /\ HandlerTypesOf(engines[1].gradient_handlers) = HandlerEntry.specs
             /\ ~IsDDP(engines[1].model)

\* what C7 says of the entries in the set of kinds `kinds`: initialize() never
\* returns, the exception it ends with is a ConfigException, and it constructs
\* no Engine
UnlistedHandlersRaise(kinds) ==
    (InInitialize /\ HandlerEntry.present /\ HandlerEntry.kind \in kinds) =>
        /\ engines = <<>>
        /\ pc # "returned"
        /\ pc = "raised" => exception \in ConfigExceptions

\* C7 as stated: a gradient_handler entry that is not a list makes
\* initialize() raise ConfigException and construct no Engine; a list gives the
\* engine exactly one handler per listed specification, in the listed order,
\* with no automatic handler and no DistributedDataParallel wrapping.
C7_AnyHandlerEntry ==
    UnlistedHandlersRaise({"None", "nonlist"}) /\ ListedHandlersBuilt

\* C7 as amended: the same, for an entry whose value is not None; an entry set
\* to None is treated as no entry (see C4-C6).
C7_NonNullHandlerEntry ==
    UnlistedHandlersRaise({"nonlist"}) /\ ListedHandlersBuilt

C7_Witness ==
    /\ pc = "returned"
    /\ HandlerEntry.present /\ HandlerEntry.kind = "list"
    /\ Len(HandlerEntry.specs) = 2 /\ HandlerEntry.specs[1] # HandlerEntry.specs[2]
    /\ ZeroSet
    /\ is_using_ddp(gpc)
    /\ HandlerTypesOf(engines[1].gradient_handlers) = HandlerEntry.specs

GroupsInitialized == pc \in {"set_device", "set_seed", "launched"} \/ InInitialize

GroupsAttempted ==
    \E i \in 1..Len(launch_trace) : launch_trace[i] = "init_parallel_groups"

\* init_parallel_groups() succeeds whenever the configured sizes multiply to
\* the world size, and is_using_pp() is true iff the pipeline size is > 1
GroupsSucceedAndPipelinePredicate ==
    /\ (GroupsAttempted
          /\ gpc.config.parallel.data * gpc.config.parallel.tensor
               * gpc.config.parallel.pipeline = gpc.world_size) =>
          /\ exception # BAD_PARALLEL_SIZES
          /\ GroupsInitialized
    /\ GroupsInitialized => (is_using_pp(gpc) <=> gpc.config.parallel.pipeline > 1)

C9_ReturnedValues ==
    /\ Len(engines) <= 1
    /\ engines # <<>> =>
         pc = "returned" /\ trace[Len(trace)] = "Engine" /\ Count(trace, "Engine") = 1
    /\ pc = "returned" =>
         /\ Len(engines) = 1
         /\ result.returned /\ result.engine = 1
         /\ result.test_dataloader = args.test_dataloader
         /\ IF gpc.config.gradient_accumulation = None
            THEN /\ result.train_dataloader = args.train_dataloader
                 /\ result.lr_scheduler = args.lr_scheduler
                 /\ ~Called("accumulate_gradient")
                 /\ Last(engines[1].optimizer) # "GradAccumOptimizer"
            ELSE LET r == accumulate_gradient(args.model, args.optimizer,
                                              args.train_dataloader,
                                              gpc.config.gradient_accumulation,
                                              NoHandlers, args.lr_scheduler)
                 IN /\ result.train_dataloader = r.dataloader
                    /\ result.lr_scheduler = r.lr_scheduler
                    /\ Count(trace, "accumulate_gradient") = 1
                    /\ Last(engines[1].optimizer) = "GradAccumOptimizer"
                    /\ \A i \in 1..Len(engines[1].gradient_handlers.list) :
                         Last(engines[1].gradient_handlers.list[i])
                             = "GradAccumGradientHandler"

C9_Witness ==
    /\ pc = "returned"
    /\ gpc.config.gradient_accumulation # None
    /\ args.train_dataloader # None
    /\ result.train_dataloader # args.train_dataloader
    /\ result.test_dataloader = args.test_dataloader
    /\ Len(engines[1].gradient_handlers.list) > 0

\* C10: initialize() moves the model to the device once and then, unless zero
\* level 3 is configured, synchronises its parameters across the data-parallel
\* ranks exactly once, before any converter or wrapper is applied; with zero
\* level 3 it never synchronises.
C10_SyncUnlessZero3 ==
    InInitialize =>
        /\ Count(trace, "model.to") = 1
        /\ Count(trace, "sync_model_param_in_dp")
             = (IF ZeroSet /\ gpc.config.zero.level = 3 THEN 0 ELSE 1)
        /\ Called("sync_model_param_in_dp") =>
             /\ Index(trace, "model.to") < Index(trace, "sync_model_param_in_dp")
             /\ \A e \in Conversions :
                  Called(e) => Index(trace, "sync_model_param_in_dp") < Index(trace, e)

C10_Witness ==
    /\ pc = "returned"
    /\ ZeroSet /\ gpc.config.zero.level = 2
    /\ Called("sync_model_param_in_dp")
    /\ Called("convert_to_zero")

\* the classes of the three kinds of optimizer the wrapping step leaves
WrappedOptimizerClasses ==
    {"ColossalaiOptimizer", "AMPOptimizer(ColossalaiOptimizer)",
     "ZeroRedundancyOptimizer_Level_2", "ZeroRedundancyOptimizer_Level_3"}

\* what C11 says of the optimizer once the wrapping step is done: it is a
\* ColossalaiOptimizer or a ZeRO level-2/3 optimizer, ColossalaiOptimizer was
\* constructed at most once, and the step applied again changes nothing
OptimizerWrappedOnce ==
    pc \in {"gradient_accumulation"} =>
        /\ Last(optimizer) \in WrappedOptimizerClasses
        /\ Count(trace, "ColossalaiOptimizer") <= 1
        /\ wrap_optimizer(optimizer) = optimizer
        /\ wrap_optimizer(wrap_optimizer(optimizer)) = wrap_optimizer(optimizer)

\* what C11 says of the step itself: an optimizer of one of the three kinds
\* passes through unchanged, any other is wrapped in one ColossalaiOptimizer
OptimizerWrapStep ==
    pc = "optimizer" =>
        /\ pc' = "gradient_accumulation"
        /\ optimizer' = IF Last(optimizer) \in WrappedOptimizerClasses
                        THEN optimizer
                        ELSE Append(optimizer, "ColossalaiOptimizer")

\* C11: the optimizer-wrapping step of initialize() is idempotent: a
\* ColossalaiOptimizer or a ZeRO level-2/3 optimizer passes through unchanged,
\* any other optimizer is wrapped exactly once in ColossalaiOptimizer, so the
\* optimizer is afterwards one of the three kinds and the step applied again
\* changes nothing.
C11_OptimizerWrapIdempotent == []OptimizerWrappedOnce /\ [][OptimizerWrapStep]_vars

C11_Witness ==
    /\ pc = "gradient_accumulation"
    /\ args.optimizer = <<"Optimizer">>
    /\ Called("convert_to_amp")
    /\ optimizer = <<"Optimizer", "AMPOptimizer", "ColossalaiOptimizer">>
    /\ Count(trace, "ColossalaiOptimizer") = 1

\* C12: initialize() never changes the shared configuration: 'mode' and
\* 'level' are popped from a copy of the section only, so the configuration
\* is at every point of initialize(), returned or raised, the one launch()
\* loaded, with fp16.mode and zero.level in place, and the clip-norm
\* validation sees the original fp16.mode.
C12_SharedConfigUnchanged ==
    InInitialize =>
        /\ gpc.config = launch_args.config
        /\ Called("convert_to_amp") =>
             /\ gpc.config.fp16.has_mode
             /\ gpc.config.fp16.mode = amp_mode
             /\ amp_mode \in AMP_TYPE
             /\ pc = "zero" => ~cfg_.has_mode
        /\ Called("convert_to_zero") =>
             /\ gpc.config.zero.has_level
             /\ gpc.config.zero.level = level
             /\ level \in {2, 3}
             /\ pc = "gradient_handler" => ~cfg_.has_level
        /\ (Finished /\ Called("convert_to_amp") /\ amp_mode = "NAIVE"
              /\ launch_args.config.clip_grad_norm.present
              /\ launch_args.config.clip_grad_norm.value > 0) =>
             pc = "raised"

C12_Witness ==
    /\ pc = "raised"
    /\ exception = CLIP_WITH_NAIVE
    /\ ~cfg_.has_mode
    /\ gpc.config.fp16.has_mode /\ gpc.config.fp16.mode = "NAIVE"
    /\ gpc.config = launch_args.config


\* ---- C13 ----
\* the Topology Context writes of launch() in their order
LaunchOrder ==
    <<"load_config", "init_global_dist", "init_parallel_groups", "set_device", "set_seed">>

LaunchWritten(e) == \E i \in 1..Len(launch_trace) : launch_trace[i] = e

\* every write happened at most once, in the order of LaunchOrder, and none
\* but set_device was skipped
LaunchInOrder ==
    /\ \A i \in 1..Len(launch_trace) : launch_trace[i] \in {LaunchOrder[k] : k \in 1..Len(LaunchOrder)}
    /\ \A k \in 1..Len(LaunchOrder) : Count(launch_trace, LaunchOrder[k]) <= 1
    /\ \A j, k \in 1..Len(LaunchOrder) :
         (j < k /\ LaunchWritten(LaunchOrder[k])) =>
             /\ LaunchOrder[j] # "set_device" => LaunchWritten(LaunchOrder[j])
             /\ LaunchWritten(LaunchOrder[j]) =>
                    Index(launch_trace, LaunchOrder[j]) < Index(launch_trace, LaunchOrder[k])

\* set_device is written exactly when the CUDA query said a device is there
SetDeviceOnlyWithCuda ==
    /\ LaunchWritten("set_device") => launch_args.cuda = "available"
    /\ (LaunchWritten("set_seed") /\ launch_args.cuda = "available") => LaunchWritten("set_device")
    /\ LaunchWritten("set_seed") => launch_args.cuda # "unqueried"
    /\ pc = "launched" => launch_trace[Len(launch_trace)] = "set_seed"

\* a config of a wrong type fails the call before any write
WrongConfigTypeFailsFirst ==
    launch_args.config_type \in ConfigArgTypes \ {"Config", "str", "Path", "dict"} =>
        /\ pc = "launch_raised"
        /\ exception = "AssertionError"
        /\ launch_trace = <<>>
        /\ ~gpc.loaded
        /\ gpc.world_size = 0

\* a wrapper passes what the environment says, and then runs launch() itself
WrappersOnlyTranslate ==
    /\ launch_args.launcher = "launch_from_slurm" /\ launch_args.config_type # "None" =>
          /\ launch_args.rank = int(launch_args.environ["SLURM_PROCID"])
          /\ launch_args.world_size = int(launch_args.environ["SLURM_NPROCS"])
          /\ launch_args.local_rank = None
    /\ launch_args.launcher = "launch_from_openmpi" /\ launch_args.config_type # "None" =>
          /\ launch_args.rank = int(launch_args.environ["OMPI_COMM_WORLD_RANK"])
          /\ launch_args.world_size = int(launch_args.environ["OMPI_COMM_WORLD_SIZE"])
          /\ launch_args.local_rank = <<int(launch_args.environ["OMPI_COMM_WORLD_LOCAL_RANK"])>>
    /\ launch_args.launcher = "launch_from_torch" /\ launch_args.config_type # "None" =>
          /\ launch_args.rank = int(launch_args.environ["RANK"])
          /\ launch_args.world_size = int(launch_args.environ["WORLD_SIZE"])
          /\ launch_args.local_rank = <<int(launch_args.environ["LOCAL_RANK"])>>
    /\ LaunchWritten("init_global_dist") => gpc.world_size = launch_args.world_size
    /\ (launch_args.launcher # "None" /\ launch_args.config_type = "None") =>
          /\ exception = "KeyError"
          /\ launch_trace = <<>>

\* C13: launch() writes the Topology Context in the order load_config,
\* init_global_dist, init_parallel_groups, set_device (only when a CUDA device
\* is available), set_seed, each at most once per call; a config that is not a
\* Config, str, Path or dict fails the call before load_config or any later
\* write; launch_from_slurm, launch_from_openmpi and launch_from_torch pass the
\* integers of their environment variables as rank, world_size and local_rank
\* (launch_from_slurm passes no local_rank) and run the same steps.
C13_LaunchOrder ==
    /\ LaunchInOrder
    /\ SetDeviceOnlyWithCuda
    /\ WrongConfigTypeFailsFirst
    /\ WrappersOnlyTranslate

\* a SLURM launch on a CUDA machine, world size written "04", ran to the end
C13_Witness ==
    /\ pc = "launched"
    /\ launch_args.launcher = "launch_from_slurm"
    /\ launch_args.environ["SLURM_NPROCS"] = <<0, 4>>
    /\ launch_args.world_size = 4
    /\ launch_args.local_rank = None
    /\ launch_trace = LaunchOrder

====
